---------------------------- MODULE Spec2Model ----------------------------
(***************************************************************************)
(* Flex Media Server: configuration loading (package config) and the       *)
(* process bootstrap (cmd/main.go).                                        *)
(*                                                                         *)
(* Representation.  A Go string is a sequence of one-character strings,    *)
(* so that strings.Split, strconv.Atoi and time.ParseDuration can be       *)
(* computed character by character.  A Go int / time.Duration is a signed  *)
(* 64-bit integer; TLC's own integers are 32 bits wide and cannot hold     *)
(* 24h = 86400000000000ns, so a 64-bit value is kept as a sign and a       *)
(* decimal magnitude: [neg |-> BOOLEAN, mag |-> digits], most significant  *)
(* digit first, no leading zero, zero being <<0>> and never negative.      *)
(***************************************************************************)
EXTENDS Integers, Sequences, FiniteSets, TLC

(***************************************************************************)
(* Decimal naturals of arbitrary size                                      *)
(***************************************************************************)

RECURSIVE NatNorm(_)
\* Strip leading zeros, keeping one digit.
NatNorm(ds) ==
  IF Len(ds) = 0 THEN <<0>>
  ELSE IF Len(ds) > 1 /\ Head(ds) = 0 THEN NatNorm(Tail(ds))
  ELSE ds

NatZero == <<0>>

NatIsZero(a) == a = <<0>>

RECURSIVE NatLexLess(_, _)
\* a < b for digit sequences of equal length.
NatLexLess(a, b) ==
  IF Len(a) = 0 THEN FALSE
  ELSE IF Head(a) # Head(b) THEN Head(a) < Head(b)
  ELSE NatLexLess(Tail(a), Tail(b))

NatLess(a, b) ==
  \/ Len(a) < Len(b)
  \/ Len(a) = Len(b) /\ NatLexLess(a, b)

NatGreater(a, b) == NatLess(b, a)

RECURSIVE NatPad(_, _)
\* ds left-padded with zeros to n digits.
NatPad(ds, n) == IF Len(ds) >= n THEN ds ELSE NatPad(<<0>> \o ds, n)

RECURSIVE NatAddAligned(_, _, _)
\* Sum of two digit sequences of equal length plus a carry, as raw digits.
NatAddAligned(a, b, carry) ==
  IF Len(a) = 0 THEN (IF carry = 0 THEN <<>> ELSE <<carry>>)
  ELSE LET n == Len(a)
           t == a[n] + b[n] + carry
       IN  NatAddAligned(SubSeq(a, 1, n - 1), SubSeq(b, 1, n - 1), t \div 10)
             \o <<t % 10>>

NatAdd(a, b) ==
  LET n == IF Len(a) > Len(b) THEN Len(a) ELSE Len(b)
  IN  NatNorm(NatAddAligned(NatPad(a, n), NatPad(b, n), 0))

RECURSIVE NatMulRaw(_, _, _)
\* a * k plus a carry, for a small multiplier k, as raw digits.
NatMulRaw(a, k, carry) ==
  IF Len(a) = 0
  THEN (IF carry = 0 THEN <<>>
        ELSE IF carry < 10 THEN <<carry>>
        ELSE NatMulRaw(<<>>, k, carry \div 10) \o <<carry % 10>>)
  ELSE LET n == Len(a)
           t == a[n] * k + carry
       IN  NatMulRaw(SubSeq(a, 1, n - 1), k, t \div 10) \o <<t % 10>>

NatMulSmall(a, k) == NatNorm(NatMulRaw(a, k, 0))

RECURSIVE Zeros(_)
Zeros(n) == IF n <= 0 THEN <<>> ELSE <<0>> \o Zeros(n - 1)

\* a * 10^n
NatShift(a, n) == IF NatIsZero(a) THEN a ELSE a \o Zeros(n)

\* floor(a / 10^n)
NatDropLast(a, n) ==
  IF Len(a) <= n THEN NatZero ELSE SubSeq(a, 1, Len(a) - n)

\* 2^63 and 2^64, the limits of int64 and uint64.
Two63 == <<9,2,2,3,3,7,2,0,3,6,8,5,4,7,7,5,8,0,8>>
MaxInt64 == <<9,2,2,3,3,7,2,0,3,6,8,5,4,7,7,5,8,0,7>>
Two64 == <<1,8,4,4,6,7,4,4,0,7,3,7,0,9,5,5,1,6,1,6>>

\* uint64 addition: the sum modulo 2^64 (both operands are at most 2^63 here,
\* so the sum wraps only when it is exactly 2^64).
Uint64Add(a, b) ==
  LET s == NatAdd(a, b)
  IN  IF s = Two64 THEN NatZero ELSE s

\* A signed 64-bit value; zero is never negative.
I64(neg, mag) == [neg |-> neg /\ ~NatIsZero(mag), mag |-> mag]

(***************************************************************************)
(* Characters                                                              *)
(***************************************************************************)

Digits == {"0","1","2","3","4","5","6","7","8","9"}

DigitVal(c) ==
  CASE c = "0" -> 0 [] c = "1" -> 1 [] c = "2" -> 2 [] c = "3" -> 3
    [] c = "4" -> 4 [] c = "5" -> 5 [] c = "6" -> 6 [] c = "7" -> 7
    [] c = "8" -> 8 [] c = "9" -> 9


(***************************************************************************)
(* strconv.Atoi (part_000 line 140).  Atoi(s) is ParseInt(s, 10, 0)        *)
(* converted to int; int is 64 bits wide (strconv.IntSize on a 64-bit      *)
(* build).  The result carries Go's error kind: "nil", "syntax" (ErrSyntax)*)
(* or "range" (ErrRange).                                                  *)
(***************************************************************************)

\* maxUint64/10 + 1: the smallest n for which n*10 overflows uint64.
Uint64Cutoff == NatAdd(NatDropLast(Two64, 1), <<1>>)

RECURSIVE ParseUintLoop(_, _)
RECURSIVE ParseUintStep(_, _)
\* strconv.ParseUint's digit loop in base 10: n is the value read so far.
ParseUintLoop(s, n) ==
  IF Len(s) = 0 THEN [err |-> "nil", n |-> n]
  ELSE IF Head(s) \notin Digits THEN [err |-> "syntax", n |-> NatZero]
  ELSE IF ~NatLess(n, Uint64Cutoff) THEN [err |-> "range", n |-> NatZero]
  ELSE ParseUintStep(s, NatAdd(NatMulSmall(n, 10), <<DigitVal(Head(s))>>))

\* The rest of the loop body, n1 being n*10 + digit.
ParseUintStep(s, n1) ==
  IF ~NatLess(n1, Two64) THEN [err |-> "range", n |-> NatZero]
  ELSE ParseUintLoop(Tail(s), n1)

ParseUint(s) ==
  IF Len(s) = 0 THEN [err |-> "syntax", n |-> NatZero]
  ELSE ParseUintLoop(s, NatZero)

\* ParseInt losing the sign of its result.
ParseIntSignLost(neg, un) ==
  IF un.err # "nil" THEN [err |-> un.err, n |-> I64(FALSE, NatZero)]
  ELSE IF ~neg /\ ~NatLess(un.n, Two63)
       THEN [err |-> "range", n |-> I64(FALSE, MaxInt64)]
  ELSE IF neg /\ NatGreater(un.n, Two63)
       THEN [err |-> "range", n |-> I64(TRUE, Two63)]
  ELSE [err |-> "nil", n |-> I64(FALSE, un.n)]

\* strconv.ParseInt after ParseUint has returned un: the int64 range.
ParseIntSigned(neg, un) ==
  IF un.err # "nil" THEN [err |-> un.err, n |-> I64(FALSE, NatZero)]
  ELSE IF ~neg /\ ~NatLess(un.n, Two63)
       THEN [err |-> "range", n |-> I64(FALSE, MaxInt64)]
  ELSE IF neg /\ NatGreater(un.n, Two63)
       THEN [err |-> "range", n |-> I64(TRUE, Two63)]
  ELSE [err |-> "nil", n |-> I64(neg, un.n)]

\* strconv.ParseInt(s, 10, 64): optional sign, then digits.
ParseInt(s) ==
  IF Len(s) = 0 THEN [err |-> "syntax", n |-> I64(FALSE, NatZero)]
  ELSE ParseIntSigned(Head(s) = "-",
                      ParseUint(IF Head(s) \in {"+", "-"} THEN Tail(s) ELSE s))

Atoi(s) == ParseInt(s)

(***************************************************************************)
(* time.ParseDuration (part_000 line 150): an optional sign, then one or    *)
(* more components, each a decimal number with an optional fraction        *)
(* followed by a unit; or the single string "0".  The result is a count of *)
(* nanoseconds.  A unit is kept as c * 10^k.  The two non-ASCII spellings  *)
(* of "us" (micro sign, Greek mu) are left out of the character set.       *)
(***************************************************************************)

Nanosecond  == [c |-> 1,  k |-> 0]
Microsecond == [c |-> 1,  k |-> 3]
Millisecond == [c |-> 1,  k |-> 6]
Second      == [c |-> 1,  k |-> 9]
Minute      == [c |-> 6,  k |-> 10]
Hour        == [c |-> 36, k |-> 11]

\* time.unitMap
UnitNames == { <<"n","s">>, <<"u","s">>, <<"m","s">>, <<"s">>, <<"m">>, <<"h">> }

\* unitMap with "h" entered as a minute.
unitMapHourAsMinute(u) ==
  CASE u = <<"n","s">> -> Nanosecond
    [] u = <<"u","s">> -> Microsecond
    [] u = <<"m","s">> -> Millisecond
    [] u = <<"s">>     -> Second
    [] u = <<"m">>     -> Minute
    [] u = <<"h">>     -> Minute

unitMap(u) ==
  CASE u = <<"n","s">> -> Nanosecond
    [] u = <<"u","s">> -> Microsecond
    [] u = <<"m","s">> -> Millisecond
    [] u = <<"s">>     -> Second
    [] u = <<"m">>     -> Minute
    [] u = <<"h">>     -> Hour

\* n * unit
TimesUnit(n, unit) == NatShift(NatMulSmall(n, unit.c), unit.k)

\* A Duration literal of the source: n * unit, e.g. 15*time.Minute.
DurationOf(n, unit) == I64(FALSE, TimesUnit(n, unit))

RECURSIVE leadingInt(_, _)
RECURSIVE leadingIntStep(_, _)
\* time.leadingInt: the leading digits of s as x, and the rest of s.
leadingInt(s, x) ==
  IF Len(s) = 0 \/ Head(s) \notin Digits THEN [err |-> FALSE, x |-> x, rem |-> s]
  ELSE IF NatGreater(x, NatDropLast(Two63, 1))
       THEN [err |-> TRUE, x |-> NatZero, rem |-> s]
  ELSE leadingIntStep(s, NatAdd(NatMulSmall(x, 10), <<DigitVal(Head(s))>>))

\* The rest of the loop body, x1 being x*10 + digit.
leadingIntStep(s, x1) ==
  IF NatGreater(x1, Two63) THEN [err |-> TRUE, x |-> NatZero, rem |-> s]
  ELSE leadingInt(Tail(s), x1)

RECURSIVE leadingFraction(_, _, _, _)
RECURSIVE leadingFractionStep(_, _, _, _)
\* time.leadingFraction: the leading digits of s as x with scale = 10^digits;
\* digits past an overflow are consumed and dropped.
leadingFraction(s, x, digits, overflow) ==
  IF Len(s) = 0 \/ Head(s) \notin Digits
  THEN [x |-> x, digits |-> digits, rem |-> s]
  ELSE IF overflow THEN leadingFraction(Tail(s), x, digits, TRUE)
  ELSE IF NatGreater(x, NatDropLast(MaxInt64, 1))
       THEN leadingFraction(Tail(s), x, digits, TRUE)
  ELSE leadingFractionStep(s, x, digits,
                           NatAdd(NatMulSmall(x, 10), <<DigitVal(Head(s))>>))

\* The rest of the loop body, y being x*10 + digit.
leadingFractionStep(s, x, digits, y) ==
  IF NatGreater(y, Two63) THEN leadingFraction(Tail(s), x, digits, TRUE)
  ELSE leadingFraction(Tail(s), y, digits + 1, FALSE)

RECURSIVE UnitLen(_)
\* Length of the unit at the head of s: up to the next '.' or digit.
UnitLen(s) ==
  IF Len(s) = 0 \/ Head(s) = "." \/ Head(s) \in Digits THEN 0
  ELSE 1 + UnitLen(Tail(s))

\* uint64(float64(f) * (float64(unit) / scale)) with scale = 10^digits:
\* floor(f * unit / 10^digits).
FractionOf(f, digits, unit) ==
  IF unit.k >= digits
  THEN NatShift(NatMulSmall(f, unit.c), unit.k - digits)
  ELSE NatDropLast(NatMulSmall(f, unit.c), digits - unit.k)

DurationError == [ok |-> FALSE, d |-> I64(FALSE, NatZero)]

(***************************************************************************)
(* ParseDuration's "for s != \"\"" loop.  One pass of the loop body is     *)
(* the chain ParseDurationLoop, durationInt, durationFraction,             *)
(* durationUnit, durationScaled, durationValue, durationTotal: each        *)
(* operator is the next slice of the body and receives what the slices     *)
(* before it computed.  d is the uint64 total so far.                      *)
(***************************************************************************)
RECURSIVE ParseDurationLoop(_, _, _)

\* d += v; if d > 1<<63: overflow
durationTotal(d1, rest, neg) ==
  IF NatGreater(d1, Two63) THEN DurationError
  ELSE ParseDurationLoop(rest, d1, neg)

\* v is v*unit plus the fraction; if v > 1<<63: overflow
durationValue(v, rest, d, neg) ==
  IF NatGreater(v, Two63) THEN DurationError
  ELSE durationTotal(Uint64Add(d, v), rest, neg)

\* if v > 1<<63/unit: overflow (or, the same, v*unit > 1<<63); v *= unit;
\* if f > 0 { v += uint64(float64(f) * (float64(unit) / scale)) }
durationScaled(vu, lf, unit, rest, d, neg) ==
  IF NatGreater(vu, Two63) THEN DurationError
  ELSE durationValue(IF NatIsZero(lf.x) THEN vu
                     ELSE NatAdd(vu, FractionOf(lf.x, lf.digits, unit)),
                     rest, d, neg)

\* Consume the unit: i characters of lf.rem.
durationUnit(x, lf, i, d, neg) ==
  IF i = 0 THEN DurationError
  ELSE IF SubSeq(lf.rem, 1, i) \notin UnitNames THEN DurationError
  ELSE durationScaled(TimesUnit(x, unitMap(SubSeq(lf.rem, 1, i))), lf,
                      unitMap(SubSeq(lf.rem, 1, i)),
                      SubSeq(lf.rem, i + 1, Len(lf.rem)), d, neg)

\* lf with post: whether a digit was consumed after the period.
WithPost(lf, before) ==
  [x |-> lf.x, digits |-> lf.digits, rem |-> lf.rem, post |-> Len(lf.rem) # before]

\* Consume the optional period and fraction.
durationFraction(pre, x, lf, d, neg) ==
  IF ~pre /\ ~lf.post THEN DurationError
  ELSE durationUnit(x, lf, UnitLen(lf.rem), d, neg)

\* Consume the leading digits: li is leadingInt's result on s.
durationInt(s, li, d, neg) ==
  IF li.err THEN DurationError
  ELSE durationFraction(
         Len(li.rem) # Len(s), li.x,
         IF Len(li.rem) > 0 /\ Head(li.rem) = "."
         THEN WithPost(leadingFraction(Tail(li.rem), NatZero, 0, FALSE),
                       Len(li.rem) - 1)
         ELSE [x |-> NatZero, digits |-> 0, rem |-> li.rem, post |-> FALSE],
         d, neg)

\* After the loop: if neg { return -Duration(d) }; if d > 1<<63-1: overflow.
durationResult(d, neg) ==
  IF neg THEN [ok |-> TRUE, d |-> I64(TRUE, d)]
  ELSE IF NatGreater(d, MaxInt64) THEN DurationError
  ELSE [ok |-> TRUE, d |-> I64(FALSE, d)]

ParseDurationLoop(s, d, neg) ==
  IF Len(s) = 0 THEN durationResult(d, neg)
  ELSE IF ~(Head(s) = "." \/ Head(s) \in Digits) THEN DurationError
  ELSE durationInt(s, leadingInt(s, NatZero), d, neg)

\* Consume the sign; "0" alone is zero; "" is an error.
durationUnsigned(rest, neg) ==
  IF rest = <<"0">> THEN [ok |-> TRUE, d |-> I64(FALSE, NatZero)]
  ELSE IF Len(rest) = 0 THEN DurationError
  ELSE ParseDurationLoop(rest, NatZero, neg)

ParseDuration(s) ==
  IF Len(s) > 0 /\ Head(s) \in {"-", "+"}
  THEN durationUnsigned(Tail(s), Head(s) = "-")
  ELSE durationUnsigned(s, FALSE)

(***************************************************************************)
(* strings.Split(s, sep) for a one-character separator (part_000 line 86)  *)
(* and fmt.Sprintf("%s:%s", a, b) (main.go line 75)                        *)
(***************************************************************************)

RECURSIVE IndexOf(_, _)
\* 1-based index of the first c in s, 0 when there is none.
IndexOf(s, c) ==
  IF Len(s) = 0 THEN 0
  ELSE IF Head(s) = c THEN 1
  ELSE LET r == IndexOf(Tail(s), c) IN IF r = 0 THEN 0 ELSE r + 1

RECURSIVE SplitNonEmpty(_, _)
\* A split that leaves out empty parts.
SplitNonEmpty(s, sep) ==
  LET i == IndexOf(s, sep)
  IN  IF i = 0 THEN <<s>>
      ELSE IF i = 1 THEN SplitNonEmpty(Tail(s), sep)
      ELSE <<SubSeq(s, 1, i - 1)>> \o SplitNonEmpty(SubSeq(s, i + 1, Len(s)), sep)

RECURSIVE Split(_, _)
Split(s, sep) ==
  LET i == IndexOf(s, sep)
  IN  IF i = 0 THEN <<s>>
      ELSE <<SubSeq(s, 1, i - 1)>> \o Split(SubSeq(s, i + 1, Len(s)), sep)

Sprintf(a, b) == a \o <<":">> \o b


(***************************************************************************)
(* Package config (part_000)                                               *)
(*                                                                         *)
(* The process environment is a function from the names of the variables   *)
(* that are set to their values; a variable may be set to the empty        *)
(* string.                                                                 *)
(***************************************************************************)

\* os.Getenv: the value of key, "" when key is not set.
Getenv(e, key) == IF key \in DOMAIN e THEN e[key] ELSE <<>>

\* getEnv with its test turned around.
getEnvInverted(e, key, defaultValue) ==
  IF Getenv(e, key) = <<>> THEN Getenv(e, key) ELSE defaultValue

\* getEnv in the manner of os.LookupEnv: the value whenever the variable is set.
getEnvLookup(e, key, defaultValue) ==
  IF key \in DOMAIN e THEN e[key] ELSE defaultValue

\* getEnv where ENV, when not given, is taken from GIN_MODE.
getEnvGinMode(e, key, defaultValue) ==
  IF Getenv(e, key) # <<>> THEN Getenv(e, key)
  ELSE IF key = "ENV" /\ Getenv(e, "GIN_MODE") # <<>> THEN Getenv(e, "GIN_MODE")
  ELSE defaultValue

\* getEnv gets an environment variable or returns a default value
getEnv(e, key, defaultValue) ==
  LET value == Getenv(e, key)
  IN  IF value # <<>> THEN value ELSE defaultValue

\* The result of strconv.Atoi used without a look at its error.
intIgnoringError(r, defaultValue) == r.n

\* strconv.Atoi's result r if it carries no error, else the default.
intOrDefault(r, defaultValue) == IF r.err = "nil" THEN r.n ELSE defaultValue

\* getEnvAsInt gets an environment variable as an integer or returns a
\* default value
getEnvAsInt(e, key, defaultValue) ==
  IF Getenv(e, key) # <<>>
  THEN intOrDefault(Atoi(Getenv(e, key)), defaultValue)
  ELSE defaultValue

\* time.ParseDuration's result r if it carries no error, else the default.
durationOrDefault(r, defaultValue) == IF r.ok THEN r.d ELSE defaultValue

\* getEnvAsDuration gets an environment variable as a duration or returns a
\* default value
getEnvAsDuration(e, key, defaultValue) ==
  IF Getenv(e, key) # <<>>
  THEN durationOrDefault(ParseDuration(Getenv(e, key)), defaultValue)
  ELSE defaultValue

\* The default literals of Load, by the variable each one backs.
default_APP_NAME ==
  <<"F","l","e","x"," ","M","e","d","i","a"," ","S","e","r","v","e","r">>
default_ENV ==
  <<"d","e","v","e","l","o","p","m","e","n","t">>
default_HOST ==
  <<"0",".","0",".","0",".","0">>
default_PORT ==
  <<"8","0","8","0">>
default_ALLOWED_ORIGINS ==
  <<"h","t","t","p",":","/","/","l","o","c","a","l","h","o","s","t",":","3","0","0","0">>
default_DB_HOST ==
  <<"l","o","c","a","l","h","o","s","t">>
default_DB_PORT ==
  <<"5","4","3","2">>
default_DB_USER ==
  <<"f","l","e","x","_","u","s","e","r">>
default_DB_PASSWORD ==
  <<"f","l","e","x","_","p","a","s","s","w","o","r","d">>
default_DB_NAME ==
  <<"f","l","e","x","_","d","e","v">>
default_DB_SSLMODE ==
  <<"d","i","s","a","b","l","e">>
default_DB_MAX_CONNECTIONS ==
  I64(FALSE, <<2,5>>)
default_DB_MAX_IDLE_TIME ==
  DurationOf(<<1,5>>, Minute)
default_REDIS_HOST ==
  <<"l","o","c","a","l","h","o","s","t">>
REDIS_PORT_6380 ==
  <<"6","3","8","0">>
default_REDIS_PORT ==
  <<"6","3","7","9">>
default_REDIS_PASSWORD ==
  <<>>
default_REDIS_DB ==
  I64(FALSE, <<0>>)
default_JWT_SECRET ==
  <<"y","o","u","r","-","s","e","c","r","e","t","-","k","e","y">>
default_JWT_EXPIRES_IN ==
  DurationOf(<<2,4>>, Hour)
default_MEDIA_ROOT_PATH ==
  <<"/","m","e","d","i","a","/","l","i","b","r","a","r","y">>
default_UPLOAD_PATH ==
  <<"/","t","m","p","/","f","l","e","x","-","u","p","l","o","a","d","s">>
default_POSTER_PATH ==
  <<"/","t","m","p","/","f","l","e","x","-","p","o","s","t","e","r","s">>
default_THUMBNAIL_PATH ==
  <<"/","t","m","p","/","f","l","e","x","-","t","h","u","m","b","n","a","i","l","s">>
default_FFMPEG_PATH ==
  <<"f","f","m","p","e","g">>
default_MEDIAINFO_PATH ==
  <<"m","e","d","i","a","i","n","f","o">>
default_TMDB_API_KEY ==
  <<>>
default_OMDB_API_KEY ==
  <<>>
default_LOG_LEVEL ==
  <<"i","n","f","o">>
default_LOG_FORMAT ==
  <<"c","o","n","s","o","l","e">>

\* Load loads configuration from environment variables: the *Config and the
\* error it returns.
Load(e) ==
  [ config |->
      [ App |->
          [ Name |-> getEnv(e, "APP_NAME", default_APP_NAME),
            Environment |-> getEnv(e, "ENV", default_ENV),
            Host |-> getEnv(e, "HOST", default_HOST),
            Port |-> getEnv(e, "PORT", default_PORT),
            Origins |-> Split(getEnv(e, "ALLOWED_ORIGINS", default_ALLOWED_ORIGINS), ",") ],
        Database |->
          [ Host |-> getEnv(e, "DB_HOST", default_DB_HOST),
            Port |-> getEnv(e, "DB_PORT", default_DB_PORT),
            User |-> getEnv(e, "DB_USER", default_DB_USER),
            Password |-> getEnv(e, "DB_PASSWORD", default_DB_PASSWORD),
            Name |-> getEnv(e, "DB_NAME", default_DB_NAME),
            SSLMode |-> getEnv(e, "DB_SSLMODE", default_DB_SSLMODE),
            MaxConnections |-> getEnvAsInt(e, "DB_MAX_CONNECTIONS", default_DB_MAX_CONNECTIONS),
            MaxIdleTime |-> getEnvAsDuration(e, "DB_MAX_IDLE_TIME", default_DB_MAX_IDLE_TIME) ],
        Redis |->
          [ Host |-> getEnv(e, "REDIS_HOST", default_REDIS_HOST),
            Port |-> getEnv(e, "REDIS_PORT", default_REDIS_PORT),
            Password |-> getEnv(e, "REDIS_PASSWORD", default_REDIS_PASSWORD),
            DB |-> getEnvAsInt(e, "REDIS_DB", default_REDIS_DB) ],
        JWT |->
          [ Secret |-> getEnv(e, "JWT_SECRET", default_JWT_SECRET),
            ExpiresIn |-> getEnvAsDuration(e, "JWT_EXPIRES_IN", default_JWT_EXPIRES_IN) ],
        Media |->
          [ RootPath |-> getEnv(e, "MEDIA_ROOT_PATH", default_MEDIA_ROOT_PATH),
            UploadPath |-> getEnv(e, "UPLOAD_PATH", default_UPLOAD_PATH),
            PosterPath |-> getEnv(e, "POSTER_PATH", default_POSTER_PATH),
            ThumbnailPath |-> getEnv(e, "THUMBNAIL_PATH", default_THUMBNAIL_PATH),
            FFmpegPath |-> getEnv(e, "FFMPEG_PATH", default_FFMPEG_PATH),
            MediaInfoPath |-> getEnv(e, "MEDIAINFO_PATH", default_MEDIAINFO_PATH) ],
        External |->
          [ TMDBAPIKey |-> getEnv(e, "TMDB_API_KEY", default_TMDB_API_KEY),
            OMDBAPIKey |-> getEnv(e, "OMDB_API_KEY", default_OMDB_API_KEY) ],
        Logging |->
          [ Level |-> getEnv(e, "LOG_LEVEL", default_LOG_LEVEL),
            Format |-> getEnv(e, "LOG_FORMAT", default_LOG_FORMAT) ] ],
    err |-> "nil" ]

\* The variables Load reads, by the kind of the field each one fills.
StringVars ==
  { "APP_NAME", "ENV", "HOST", "PORT", "DB_HOST", "DB_PORT", "DB_USER",
    "DB_PASSWORD", "DB_NAME", "DB_SSLMODE", "REDIS_HOST", "REDIS_PORT",
    "REDIS_PASSWORD", "JWT_SECRET", "MEDIA_ROOT_PATH", "UPLOAD_PATH",
    "POSTER_PATH", "THUMBNAIL_PATH", "FFMPEG_PATH", "MEDIAINFO_PATH",
    "TMDB_API_KEY", "OMDB_API_KEY", "LOG_LEVEL", "LOG_FORMAT" }

IntVars ==
  { "DB_MAX_CONNECTIONS", "REDIS_DB" }

DurationVars ==
  { "DB_MAX_IDLE_TIME", "JWT_EXPIRES_IN" }

ListVars ==
  { "ALLOWED_ORIGINS" }

VarNames == StringVars \cup IntVars \cup DurationVars \cup ListVars

\* A variable Load does not read.
OtherVars == { "GIN_MODE" }

(***************************************************************************)
(* Inputs: the values a variable is set to                                 *)
(***************************************************************************)

StringInputs ==
  { <<>>,
    <<"x">> }

\* The values main.go's initLogger and gin-mode test compare against.
KnownValues(k) ==
  CASE k = "ENV"        -> { <<"p","r","o","d","u","c","t","i","o","n">> }
    [] k = "LOG_FORMAT" -> { <<"j","s","o","n">> }
    [] k = "LOG_LEVEL"  -> { <<"d","e","b","u","g">>,
                             <<"e","r","r","o","r">> }
    [] OTHER            -> {}

IntInputs ==
  { <<>>,
    <<"3">>,
    <<"-","5">>,
    <<"+","7">>,
    <<"0","0","7">>,
    <<"-","0">>,
    <<"a","b","c">>,
    <<"n","o","t","a","n","u","m","b","e","r">>,
    <<" ","3">>,
    <<"+">>,
    <<"1","_","0">>,
    <<"9","2","2","3","3","7","2","0","3","6","8","5","4","7","7","5","8","0","7">>,
    <<"9","2","2","3","3","7","2","0","3","6","8","5","4","7","7","5","8","0","8">>,
    <<"-","9","2","2","3","3","7","2","0","3","6","8","5","4","7","7","5","8","0","8">>,
    <<"9","9","9","9","9","9","9","9","9","9","9","9","9","9","9","9","9","9","9","9">> }

DurationInputs ==
  { <<>>,
    <<"1","0","s">>,
    <<"4","8","h">>,
    <<"1","h","3","0","m">>,
    <<"1",".","5","h">>,
    <<"1",".","5","n","s">>,
    <<"-","1","m">>,
    <<"0">>,
    <<"2","5","0","m","s">>,
    <<"2","5","6","2","0","4","7","h">>,
    <<"n","o","p","e">>,
    <<"5">>,
    <<"1","d">>,
    <<"1","0"," ","s">>,
    <<".","s">>,
    <<"3","0","0","0","0","0","0","h">>,
    <<"9","2","2","3","3","7","2","0","3","6","8","5","4","7","7","5","8","0","8","n","s">> }

OriginInputs ==
  { <<>>,
    <<"h","t","t","p",":","/","/","a",".","c","o","m",",","h","t","t","p",":","/","/","b",".","c","o","m">>,
    <<"x">>,
    <<",">>,
    <<"a",","," ","b">>,
    <<"a",",",",","b">> }

\* The values a variable Load does not read is set to.
OtherInputs ==
  { <<"x">> }

InputsOf(k) ==
  IF k \in IntVars THEN IntInputs
  ELSE IF k \in DurationVars THEN DurationInputs
  ELSE IF k \in ListVars THEN OriginInputs
  ELSE StringInputs \cup KnownValues(k)

\* At most MaxSet of the variables Load reads are set at once.
MaxSet == 1

\* The harness calls Load at most MaxCalls times.
MaxCalls == 2

EmptyEnv == [k \in {} |-> <<>>]

\* os.Setenv and os.Unsetenv
Setenv(e, key, value) ==
  [k \in DOMAIN e \cup {key} |-> IF k = key THEN value ELSE e[k]]

Unsetenv(e, key) == [k \in DOMAIN e \ {key} |-> e[k]]

RECURSIVE EnvsUpTo(_)
\* The environments with at most n of the variables Load reads set.
EnvsUpTo(n) ==
  IF n = 0 THEN { EmptyEnv }
  ELSE LET smaller == EnvsUpTo(n - 1)
       IN  smaller \cup
           UNION { { Setenv(e, k, v) : v \in InputsOf(k) } :
                     <<e, k>> \in { x \in smaller \X VarNames : x[2] \notin DOMAIN x[1] } }

Environments == EnvsUpTo(MaxSet)

\* The environments the bootstrap is started in: those of Environments whose
\* values are among BootValues.
BootValues ==
  { <<>>,
    <<"x">>,
    <<"p","r","o","d","u","c","t","i","o","n">>,
    <<"j","s","o","n">>,
    <<"d","e","b","u","g">>,
    <<"3">>,
    <<"a","b","c">>,
    <<"4","8","h">>,
    <<"n","o","p","e">>,
    <<"h","t","t","p",":","/","/","a",".","c","o","m",",","h","t","t","p",":","/","/","b",".","c","o","m">> }

BootEnvironments ==
  { e \in Environments : \A k \in DOMAIN e : e[k] \in BootValues }

\* godotenv.Load (main.go line 24): the .env files that may be present.  Each
\* maps variable names to values.
DotEnvFiles ==
  { [k \in {"ENV", "LOG_FORMAT"} |->
       IF k = "ENV" THEN <<"p","r","o","d","u","c","t","i","o","n">>
       ELSE <<"j","s","o","n">>] }

\* godotenv.Load sets the variables of the file that are not already set.
godotenvLoad(e, file) ==
  [k \in DOMAIN e \cup DOMAIN file |-> IF k \in DOMAIN e THEN e[k] ELSE file[k]]


(***************************************************************************)
(* cmd/main.go                                                             *)
(***************************************************************************)

\* A nil pointer, and a variable not yet assigned.
Nil == [nil |-> TRUE]

\* The string literals main.go compares against.
PRODUCTION == <<"p","r","o","d","u","c","t","i","o","n">>
JSON == <<"j","s","o","n">>
DEBUG == <<"d","e","b","u","g">>
INFO == <<"i","n","f","o">>
WARN == <<"w","a","r","n">>
ERROR == <<"e","r","r","o","r">>

\* initLogger: the zap.Config built from ENV, LOG_FORMAT and LOG_LEVEL, read
\* from the process environment.
initLogger(e) ==
  LET envTag    == Getenv(e, "ENV")
      logFormat == Getenv(e, "LOG_FORMAT")
      logLevel  == Getenv(e, "LOG_LEVEL")
  IN  [ profile  |-> IF envTag = PRODUCTION THEN "production" ELSE "development",
        encoding |-> IF logFormat = JSON THEN "json" ELSE "console",
        level    |-> CASE logLevel = DEBUG -> "debug"
                       [] logLevel = INFO  -> "info"
                       [] logLevel = WARN  -> "warn"
                       [] logLevel = ERROR -> "error"
                       [] OTHER -> "info" ]

\* database.Connect(cfg.Database): the pool holds a copy of the section.
databaseConnect(section) == [cfg |-> section, migrated |-> FALSE]

\* database.Migrate(db)
databaseMigrate(handle) == [handle EXCEPT !.migrated = TRUE]

\* database.ConnectRedis(cfg.Redis): the client holds a copy of the section.
databaseConnectRedis(section) == [cfg |-> section]

\* routes.SetupRoutes(router, db, redisClient, cfg, logger) is handed the
\* *Config; what it leaves in the snapshot.
routesSetupRoutes(c) == c

VARIABLES
  env,          \* the process environment
  pc,           \* main's position
  gpc,          \* the position of the goroutine started at main.go line 83
  cfg,          \* the *Config Load returned, Nil before
  loadErr,      \* the error Load returned
  loadCalls,    \* how many times Load has been called
  loadedFrom,   \* the environment of the latest Load call
  prev,         \* the Load call before the latest: its snapshot and environment
  logger,
  db,
  redisClient,
  ginMode,
  router,
  server,
  notified,     \* signal.Notify has registered quit
  quit          \* the quit channel, buffer of one

vars == << env, pc, gpc, cfg, loadErr, loadCalls, loadedFrom, prev, logger, db,
           redisClient, ginMode, router, server, notified, quit >>

loadVars == << cfg, loadErr, loadCalls, loadedFrom, prev >>

Running == pc \notin {"done", "exited", "harness"}

Boot(e, start) ==
  /\ env = e
  /\ pc = start
  /\ gpc = "none"
  /\ cfg = Nil
  /\ loadErr = "nil"
  /\ loadCalls = 0
  /\ loadedFrom = EmptyEnv
  /\ prev = Nil
  /\ logger = Nil
  /\ db = Nil
  /\ redisClient = Nil
  /\ ginMode = "debug"
  /\ router = Nil
  /\ server = Nil
  /\ notified = FALSE
  /\ quit = <<>>

Init == \E e \in BootEnvironments : Boot(e, "godotenv")

\* cfg, err := config.Load(), r being what Load returned.
Loaded(r) ==
  /\ cfg' = r.config
  /\ loadErr' = r.err
  /\ loadCalls' = loadCalls + 1
  /\ loadedFrom' = env
  /\ prev' = [cfg |-> cfg, env |-> loadedFrom]
  /\ env' = env

CallLoad == Loaded(Load(env))

\* main.go 24-26: no .env file; the error is logged and ignored.
GodotenvMissing ==
  /\ pc = "godotenv"
  /\ pc' = "initLogger"
  /\ UNCHANGED << env, gpc, loadVars, logger, db, redisClient, ginMode, router,
                  server, notified, quit >>

\* main.go 24: a .env file is read into the environment.
GodotenvFile ==
  /\ pc = "godotenv"
  /\ \E file \in DotEnvFiles : env' = godotenvLoad(env, file)
  /\ pc' = "initLogger"
  /\ UNCHANGED << gpc, loadVars, logger, db, redisClient, ginMode, router,
                  server, notified, quit >>

\* main.go 29-33
InitLoggerOk ==
  /\ pc = "initLogger"
  /\ logger' = initLogger(env)
  /\ pc' = "load"
  /\ UNCHANGED << env, gpc, loadVars, db, redisClient, ginMode, router, server,
                  notified, quit >>

\* main.go 30-32: config.Build() failed; log.Fatal exits the process.
InitLoggerFail ==
  /\ pc = "initLogger"
  /\ pc' = "exited"
  /\ UNCHANGED << env, gpc, loadVars, logger, db, redisClient, ginMode, router,
                  server, notified, quit >>

\* main.go 36-39
ConfigLoad ==
  /\ pc = "load"
  /\ CallLoad
  /\ pc' = IF loadErr' = "nil" THEN "connect" ELSE "exited"
  /\ UNCHANGED << gpc, logger, db, redisClient, ginMode, router, server,
                  notified, quit >>

\* main.go 42-45
DatabaseConnectOk ==
  /\ pc = "connect"
  /\ db' = databaseConnect(cfg.Database)
  /\ pc' = "migrate"
  /\ UNCHANGED << env, gpc, loadVars, logger, redisClient, ginMode, router,
                  server, notified, quit >>

DatabaseConnectFail ==
  /\ pc = "connect"
  /\ pc' = "exited"
  /\ UNCHANGED << env, gpc, loadVars, logger, db, redisClient, ginMode, router,
                  server, notified, quit >>

\* main.go 48-50
MigrateOk ==
  /\ pc = "migrate"
  /\ db' = databaseMigrate(db)
  /\ pc' = "redis"
  /\ UNCHANGED << env, gpc, loadVars, logger, redisClient, ginMode, router,
                  server, notified, quit >>

MigrateFail ==
  /\ pc = "migrate"
  /\ pc' = "exited"
  /\ UNCHANGED << env, gpc, loadVars, logger, db, redisClient, ginMode, router,
                  server, notified, quit >>

\* main.go 53-56
ConnectRedisOk ==
  /\ pc = "redis"
  /\ redisClient' = databaseConnectRedis(cfg.Redis)
  /\ pc' = "ginMode"
  /\ UNCHANGED << env, gpc, loadVars, logger, db, ginMode, router, server,
                  notified, quit >>

ConnectRedisFail ==
  /\ pc = "redis"
  /\ pc' = "exited"
  /\ UNCHANGED << env, gpc, loadVars, logger, db, redisClient, ginMode, router,
                  server, notified, quit >>

\* The gin mode step also renaming the environment in the snapshot.
SetGinModeRenaming ==
  /\ pc = "ginMode"
  /\ ginMode' = IF cfg.App.Environment = PRODUCTION THEN "release" ELSE ginMode
  /\ cfg' = [cfg EXCEPT !.App.Environment =
               IF @ = PRODUCTION THEN <<"r","e","l","e","a","s","e">> ELSE @]
  /\ pc' = "router"
  /\ UNCHANGED << env, gpc, loadErr, loadCalls, loadedFrom, prev, logger, db,
                  redisClient, router, server, notified, quit >>

\* main.go 59-61
SetGinMode ==
  /\ pc = "ginMode"
  /\ ginMode' = IF cfg.App.Environment = PRODUCTION THEN "release" ELSE ginMode
  /\ pc' = "router"
  /\ UNCHANGED << env, gpc, loadVars, logger, db, redisClient, router, server,
                  notified, quit >>

\* main.go 64-68: gin.New() and the two middlewares.
NewRouter ==
  /\ pc = "router"
  /\ router' = [middleware |-> <<"Logger", "Recovery">>, routes |-> FALSE]
  /\ pc' = "routes"
  /\ UNCHANGED << env, gpc, loadVars, logger, db, redisClient, ginMode, server,
                  notified, quit >>

\* main.go 71
SetupRoutes ==
  /\ pc = "routes"
  /\ router' = [router EXCEPT !.routes = TRUE]
  /\ cfg' = routesSetupRoutes(cfg)
  /\ pc' = "server"
  /\ UNCHANGED << env, gpc, loadErr, loadCalls, loadedFrom, prev, logger, db,
                  redisClient, ginMode, server, notified, quit >>

\* main.go 74-80
NewServer ==
  /\ pc = "server"
  /\ server' = [Addr |-> Sprintf(cfg.App.Host, cfg.App.Port), closed |-> FALSE]
  /\ pc' = "go"
  /\ UNCHANGED << env, gpc, loadVars, logger, db, redisClient, ginMode, router,
                  notified, quit >>

\* The go statement reached without the steps from config.Load() on.
GoServeBeforeLoad ==
  /\ pc \in {"go", "load"}
  /\ gpc' = "log"
  /\ pc' = "notify"
  /\ UNCHANGED << env, loadVars, logger, db, redisClient, ginMode, router,
                  server, notified, quit >>

\* main.go 83: the go statement.
GoServe ==
  /\ pc = "go"
  /\ gpc' = "log"
  /\ pc' = "notify"
  /\ UNCHANGED << env, loadVars, logger, db, redisClient, ginMode, router,
                  server, notified, quit >>

\* main.go 96-97
NotifySignals ==
  /\ pc = "notify"
  /\ notified' = TRUE
  /\ pc' = "wait"
  /\ UNCHANGED << env, gpc, loadVars, logger, db, redisClient, ginMode, router,
                  server, quit >>

\* SIGINT or SIGTERM is delivered to the registered channel; a signal that
\* finds the buffer full is dropped.
Signal ==
  /\ Running
  /\ notified
  /\ quit = <<>>
  /\ quit' = <<"signal">>
  /\ UNCHANGED << env, pc, gpc, loadVars, logger, db, redisClient, ginMode,
                  router, server, notified >>

\* main.go 98-100
ReceiveQuit ==
  /\ pc = "wait"
  /\ quit # <<>>
  /\ quit' = <<>>
  /\ pc' = "shutdown"
  /\ UNCHANGED << env, gpc, loadVars, logger, db, redisClient, ginMode, router,
                  server, notified >>

\* main.go 103-106: server.Shutdown closes the listener ...
ShutdownBegin ==
  /\ pc = "shutdown"
  /\ server' = [server EXCEPT !.closed = TRUE]
  /\ pc' = "shuttingDown"
  /\ UNCHANGED << env, gpc, loadVars, logger, db, redisClient, ginMode, router,
                  notified, quit >>

\* ... and returns nil (main.go 110, then main returns),
ShutdownOk ==
  /\ pc = "shuttingDown"
  /\ pc' = "done"
  /\ UNCHANGED << env, gpc, loadVars, logger, db, redisClient, ginMode, router,
                  server, notified, quit >>

\* or the context's error after 30 seconds (main.go 106-108).
ShutdownFail ==
  /\ pc = "shuttingDown"
  /\ pc' = "exited"
  /\ UNCHANGED << env, gpc, loadVars, logger, db, redisClient, ginMode, router,
                  server, notified, quit >>

\* main.go 84-88, in the goroutine: reads cfg.App.
ServeLog ==
  /\ Running
  /\ gpc = "log"
  /\ gpc' = "listen"
  /\ UNCHANGED << env, pc, loadVars, logger, db, redisClient, ginMode, router,
                  server, notified, quit >>

\* main.go 90: ListenAndServe binds and serves,
ListenOk ==
  /\ Running
  /\ gpc = "listen"
  /\ ~server.closed
  /\ gpc' = "serving"
  /\ UNCHANGED << env, pc, loadVars, logger, db, redisClient, ginMode, router,
                  server, notified, quit >>

\* fails (main.go 90-92: logger.Fatal exits the process),
ListenFail ==
  /\ Running
  /\ gpc = "listen"
  /\ ~server.closed
  /\ pc' = "exited"
  /\ UNCHANGED << env, gpc, loadVars, logger, db, redisClient, ginMode, router,
                  server, notified, quit >>

\* or returns http.ErrServerClosed once Shutdown has been called.
ServeClosed ==
  /\ Running
  /\ gpc \in {"listen", "serving"}
  /\ server.closed
  /\ gpc' = "returned"
  /\ UNCHANGED << env, pc, loadVars, logger, db, redisClient, ginMode, router,
                  server, notified, quit >>

Next ==
  \/ GodotenvMissing \/ GodotenvFile
  \/ InitLoggerOk \/ InitLoggerFail
  \/ ConfigLoad
  \/ DatabaseConnectOk \/ DatabaseConnectFail
  \/ MigrateOk \/ MigrateFail
  \/ ConnectRedisOk \/ ConnectRedisFail
  \/ SetGinMode \/ NewRouter \/ SetupRoutes \/ NewServer
  \/ GoServe \/ NotifySignals \/ Signal \/ ReceiveQuit
  \/ ShutdownBegin \/ ShutdownOk \/ ShutdownFail
  \/ ServeLog \/ ListenOk \/ ListenFail \/ ServeClosed

Spec == Init /\ [][Next]_vars

(***************************************************************************)
(* Load as a function of the environment: a harness that calls Load up to  *)
(* MaxCalls times on one environment, in which the variables Load does     *)
(* not read are set and unset between the calls.                           *)
(***************************************************************************)

InitLoad == \E e \in Environments : Boot(e, "harness")

HarnessLoad ==
  /\ pc = "harness"
  /\ loadCalls < MaxCalls
  /\ CallLoad
  /\ UNCHANGED << pc, gpc, logger, db, redisClient, ginMode, router, server,
                  notified, quit >>

HarnessSetOther ==
  /\ pc = "harness"
  /\ \E k \in OtherVars : \E v \in OtherInputs :
       /\ k \notin DOMAIN env
       /\ env' = Setenv(env, k, v)
  /\ UNCHANGED << pc, gpc, loadVars, logger, db, redisClient, ginMode, router,
                  server, notified, quit >>

HarnessUnsetOther ==
  /\ pc = "harness"
  /\ \E k \in OtherVars :
       /\ k \in DOMAIN env
       /\ env' = Unsetenv(env, k)
  /\ UNCHANGED << pc, gpc, loadVars, logger, db, redisClient, ginMode, router,
                  server, notified, quit >>

NextLoad == HarnessLoad \/ HarnessSetOther \/ HarnessUnsetOther

SpecLoad == InitLoad /\ [][NextLoad]_vars


(***************************************************************************)
(* Properties                                                              *)
(*                                                                         *)
(* What the documentation says of each variable, written independently of  *)
(* Load: the variable behind each attribute, the default table, and the    *)
(* meaning of integer and duration strings.                                *)
(***************************************************************************)

FieldOf(c, k) ==
  CASE k = "APP_NAME" -> c.App.Name
    [] k = "ENV" -> c.App.Environment
    [] k = "HOST" -> c.App.Host
    [] k = "PORT" -> c.App.Port
    [] k = "ALLOWED_ORIGINS" -> c.App.Origins
    [] k = "DB_HOST" -> c.Database.Host
    [] k = "DB_PORT" -> c.Database.Port
    [] k = "DB_USER" -> c.Database.User
    [] k = "DB_PASSWORD" -> c.Database.Password
    [] k = "DB_NAME" -> c.Database.Name
    [] k = "DB_SSLMODE" -> c.Database.SSLMode
    [] k = "DB_MAX_CONNECTIONS" -> c.Database.MaxConnections
    [] k = "DB_MAX_IDLE_TIME" -> c.Database.MaxIdleTime
    [] k = "REDIS_HOST" -> c.Redis.Host
    [] k = "REDIS_PORT" -> c.Redis.Port
    [] k = "REDIS_PASSWORD" -> c.Redis.Password
    [] k = "REDIS_DB" -> c.Redis.DB
    [] k = "JWT_SECRET" -> c.JWT.Secret
    [] k = "JWT_EXPIRES_IN" -> c.JWT.ExpiresIn
    [] k = "MEDIA_ROOT_PATH" -> c.Media.RootPath
    [] k = "UPLOAD_PATH" -> c.Media.UploadPath
    [] k = "POSTER_PATH" -> c.Media.PosterPath
    [] k = "THUMBNAIL_PATH" -> c.Media.ThumbnailPath
    [] k = "FFMPEG_PATH" -> c.Media.FFmpegPath
    [] k = "MEDIAINFO_PATH" -> c.Media.MediaInfoPath
    [] k = "TMDB_API_KEY" -> c.External.TMDBAPIKey
    [] k = "OMDB_API_KEY" -> c.External.OMDBAPIKey
    [] k = "LOG_LEVEL" -> c.Logging.Level
    [] k = "LOG_FORMAT" -> c.Logging.Format

\* The default table, string rows.
DefaultString(k) ==
  CASE k = "APP_NAME" -> <<"F","l","e","x"," ","M","e","d","i","a"," ","S","e","r","v","e","r">>
    [] k = "ENV" -> <<"d","e","v","e","l","o","p","m","e","n","t">>
    [] k = "HOST" -> <<"0",".","0",".","0",".","0">>
    [] k = "PORT" -> <<"8","0","8","0">>
    [] k = "ALLOWED_ORIGINS" -> <<"h","t","t","p",":","/","/","l","o","c","a","l","h","o","s","t",":","3","0","0","0">>
    [] k = "DB_HOST" -> <<"l","o","c","a","l","h","o","s","t">>
    [] k = "DB_PORT" -> <<"5","4","3","2">>
    [] k = "DB_USER" -> <<"f","l","e","x","_","u","s","e","r">>
    [] k = "DB_PASSWORD" -> <<"f","l","e","x","_","p","a","s","s","w","o","r","d">>
    [] k = "DB_NAME" -> <<"f","l","e","x","_","d","e","v">>
    [] k = "DB_SSLMODE" -> <<"d","i","s","a","b","l","e">>
    [] k = "REDIS_HOST" -> <<"l","o","c","a","l","h","o","s","t">>
    [] k = "REDIS_PORT" -> <<"6","3","7","9">>
    [] k = "REDIS_PASSWORD" -> <<>>
    [] k = "JWT_SECRET" -> <<"y","o","u","r","-","s","e","c","r","e","t","-","k","e","y">>
    [] k = "MEDIA_ROOT_PATH" -> <<"/","m","e","d","i","a","/","l","i","b","r","a","r","y">>
    [] k = "UPLOAD_PATH" -> <<"/","t","m","p","/","f","l","e","x","-","u","p","l","o","a","d","s">>
    [] k = "POSTER_PATH" -> <<"/","t","m","p","/","f","l","e","x","-","p","o","s","t","e","r","s">>
    [] k = "THUMBNAIL_PATH" -> <<"/","t","m","p","/","f","l","e","x","-","t","h","u","m","b","n","a","i","l","s">>
    [] k = "FFMPEG_PATH" -> <<"f","f","m","p","e","g">>
    [] k = "MEDIAINFO_PATH" -> <<"m","e","d","i","a","i","n","f","o">>
    [] k = "TMDB_API_KEY" -> <<>>
    [] k = "OMDB_API_KEY" -> <<>>
    [] k = "LOG_LEVEL" -> <<"i","n","f","o">>
    [] k = "LOG_FORMAT" -> <<"c","o","n","s","o","l","e">>

\* The default table, integer rows: 25 and 0.
DefaultInt(k) ==
  CASE k = "DB_MAX_CONNECTIONS" -> [neg |-> FALSE, mag |-> <<2,5>>]
    [] k = "REDIS_DB" -> [neg |-> FALSE, mag |-> <<0>>]

\* The default table, duration rows, in nanoseconds: 15 minutes and 24 hours.
DefaultDuration(k) ==
  CASE k = "DB_MAX_IDLE_TIME" -> [neg |-> FALSE, mag |-> <<9,0,0,0,0,0,0,0,0,0,0,0>>]
    [] k = "JWT_EXPIRES_IN" -> [neg |-> FALSE, mag |-> <<8,6,4,0,0,0,0,0,0,0,0,0,0,0>>]

\* s without its sign.
Unsigned(s) == IF Len(s) > 0 /\ Head(s) \in {"+", "-"} THEN Tail(s) ELSE s

\* s is a base-10 integer string: an optional sign and at least one digit.
IsDecimalInt(s) ==
  /\ Len(Unsigned(s)) >= 1
  /\ \A i \in 1..Len(Unsigned(s)) : Unsigned(s)[i] \in Digits

\* The integer a base-10 integer string denotes.
DecimalValue(s) ==
  I64(Head(s) = "-", NatNorm([i \in 1..Len(Unsigned(s)) |-> DigitVal(Unsigned(s)[i])]))

\* v lies in -2^63 .. 2^63-1.
FitsInt64(v) ==
  IF v.neg THEN ~NatGreater(v.mag, Two63) ELSE ~NatGreater(v.mag, MaxInt64)

\* What each duration string of DurationInputs denotes: whether it is a valid
\* duration string, whether it is a whole number of nanoseconds, its sign and
\* its magnitude in nanoseconds (rounded down).
DurationMeaning(s) ==
  CASE
    s = <<"1","0","s">> ->
      [valid |-> TRUE, whole |-> TRUE, neg |-> FALSE, ns |-> <<1,0,0,0,0,0,0,0,0,0,0>>]
    []
    s = <<"4","8","h">> ->
      [valid |-> TRUE, whole |-> TRUE, neg |-> FALSE, ns |-> <<1,7,2,8,0,0,0,0,0,0,0,0,0,0,0>>]
    []
    s = <<"1","h","3","0","m">> ->
      [valid |-> TRUE, whole |-> TRUE, neg |-> FALSE, ns |-> <<5,4,0,0,0,0,0,0,0,0,0,0,0>>]
    []
    s = <<"1",".","5","h">> ->
      [valid |-> TRUE, whole |-> TRUE, neg |-> FALSE, ns |-> <<5,4,0,0,0,0,0,0,0,0,0,0,0>>]
    []
    s = <<"1",".","5","n","s">> ->
      [valid |-> TRUE, whole |-> FALSE, neg |-> FALSE, ns |-> <<1>>]
    []
    s = <<"-","1","m">> ->
      [valid |-> TRUE, whole |-> TRUE, neg |-> TRUE, ns |-> <<6,0,0,0,0,0,0,0,0,0,0>>]
    []
    s = <<"0">> ->
      [valid |-> TRUE, whole |-> TRUE, neg |-> FALSE, ns |-> <<0>>]
    []
    s = <<"2","5","0","m","s">> ->
      [valid |-> TRUE, whole |-> TRUE, neg |-> FALSE, ns |-> <<2,5,0,0,0,0,0,0,0>>]
    []
    s = <<"2","5","6","2","0","4","7","h">> ->
      [valid |-> TRUE, whole |-> TRUE, neg |-> FALSE, ns |-> <<9,2,2,3,3,6,9,2,0,0,0,0,0,0,0,0,0,0,0>>]
    []
    s = <<"3","0","0","0","0","0","0","h">> ->
      [valid |-> TRUE, whole |-> TRUE, neg |-> FALSE, ns |-> <<1,0,8,0,0,0,0,0,0,0,0,0,0,0,0,0,0,0,0,0>>]
    []
    s = <<"9","2","2","3","3","7","2","0","3","6","8","5","4","7","7","5","8","0","8","n","s">> ->
      [valid |-> TRUE, whole |-> TRUE, neg |-> FALSE, ns |-> <<9,2,2,3,3,7,2,0,3,6,8,5,4,7,7,5,8,0,8>>]
    []
    OTHER ->
      [valid |-> FALSE, whole |-> FALSE, neg |-> FALSE, ns |-> <<0>>]

RECURSIVE Join(_, _)
\* The elements of list joined by sep.
Join(list, sep) ==
  IF Len(list) = 0 THEN <<>>
  ELSE IF Len(list) = 1 THEN list[1]
  ELSE list[1] \o <<sep>> \o Join(Tail(list), sep)

\* The environment the snapshot in cfg was loaded from has k set / its value.
IsSet(k) == k \in DOMAIN loadedFrom
ValueOf(k) == Getenv(loadedFrom, k)

\* Load has returned, in the harness.
HarnessLoaded == pc = "harness" /\ loadCalls >= 1

\* C1: for every environment Load returns a fully populated snapshot and no
\* error: every attribute is the environment's override or the default, and an
\* integer or duration value that does not parse gives the default.
C1_NeverFails ==
  HarnessLoaded =>
    /\ loadErr = "nil"
    /\ cfg # Nil
    /\ \A k \in StringVars :
         FieldOf(cfg, k) = ValueOf(k) \/ FieldOf(cfg, k) = DefaultString(k)
    /\ \A k \in ListVars :
         \/ Join(FieldOf(cfg, k), ",") = ValueOf(k)
         \/ Join(FieldOf(cfg, k), ",") = DefaultString(k)
    /\ \A k \in IntVars :
         /\ \/ FieldOf(cfg, k) = DefaultInt(k)
            \/ IsDecimalInt(ValueOf(k)) /\ FieldOf(cfg, k) = DecimalValue(ValueOf(k))
         /\ ~IsDecimalInt(ValueOf(k)) => FieldOf(cfg, k) = DefaultInt(k)
    /\ \A k \in DurationVars :
         /\ \/ FieldOf(cfg, k) = DefaultDuration(k)
            \/ /\ DurationMeaning(ValueOf(k)).valid
               /\ FieldOf(cfg, k).mag = DurationMeaning(ValueOf(k)).ns
         /\ ~DurationMeaning(ValueOf(k)).valid => FieldOf(cfg, k) = DefaultDuration(k)

\* C1's case: Load has returned on an environment with a malformed integer.
C1_Witness ==
  /\ HarnessLoaded
  /\ IsSet("DB_MAX_CONNECTIONS")
  /\ ValueOf("DB_MAX_CONNECTIONS") = <<"n","o","t","a","n","u","m","b","e","r">>
  /\ loadErr = "nil"

\* C2: with none of the 29 variables set, Load returns no error and the
\* snapshot of the default table.
C2_EmptyEnvironmentGivesDefaults ==
  (HarnessLoaded /\ \A k \in VarNames : ~IsSet(k)) =>
    /\ loadErr = "nil"
    /\ \A k \in StringVars : FieldOf(cfg, k) = DefaultString(k)
    /\ cfg.Redis.Password = <<>>
    /\ cfg.External.TMDBAPIKey = <<>>
    /\ cfg.External.OMDBAPIKey = <<>>
    /\ cfg.Database.MaxConnections = [neg |-> FALSE, mag |-> <<2,5>>]
    /\ cfg.Redis.DB = [neg |-> FALSE, mag |-> <<0>>]
    /\ cfg.Database.MaxIdleTime = DefaultDuration("DB_MAX_IDLE_TIME")
    /\ cfg.JWT.ExpiresIn = DefaultDuration("JWT_EXPIRES_IN")
    /\ cfg.App.Origins = << <<"h","t","t","p",":","/","/","l","o","c","a","l","h","o","s","t",":","3","0","0","0">> >>

\* C2's case: Load has returned on an environment with none of the 29 set.
C2_Witness ==
  /\ HarnessLoaded
  /\ \A k \in VarNames : ~IsSet(k)
  /\ cfg # Nil

\* C3: a string variable set to a non-empty value gives that value verbatim;
\* unset or set to the empty string it gives the documented default.
C3_StringFields ==
  HarnessLoaded =>
    \A k \in StringVars :
      FieldOf(cfg, k) =
        IF IsSet(k) /\ ValueOf(k) # <<>> THEN ValueOf(k) ELSE DefaultString(k)

\* C3's case: Load has returned with a string variable set to "x".
C3_Witness ==
  /\ HarnessLoaded
  /\ \E k \in StringVars : IsSet(k) /\ ValueOf(k) = <<"x">> /\ FieldOf(cfg, k) = <<"x">>

\* C4 as stated: every base-10 integer string gives that integer; a missing
\* variable or any other value gives the default.
C4_Original ==
  HarnessLoaded =>
    \A k \in IntVars :
      FieldOf(cfg, k) =
        IF IsSet(k) /\ IsDecimalInt(ValueOf(k)) THEN DecimalValue(ValueOf(k))
        ELSE DefaultInt(k)

\* C4 amended: a base-10 integer string whose value lies in the range of int
\* (-2^63 .. 2^63-1) gives that integer; a missing variable, a value that is
\* no base-10 integer string, or one out of that range gives the default.
C4_IntFields ==
  HarnessLoaded =>
    \A k \in IntVars :
      FieldOf(cfg, k) =
        IF IsSet(k) /\ IsDecimalInt(ValueOf(k)) /\ FitsInt64(DecimalValue(ValueOf(k)))
        THEN DecimalValue(ValueOf(k))
        ELSE DefaultInt(k)

\* C4's case: REDIS_DB="3" has been loaded as 3.
C4_Witness ==
  /\ HarnessLoaded
  /\ IsSet("REDIS_DB")
  /\ ValueOf("REDIS_DB") = <<"3">>
  /\ cfg.Redis.DB = [neg |-> FALSE, mag |-> <<3>>]

DurationValue(s) == [neg |-> DurationMeaning(s).neg, mag |-> DurationMeaning(s).ns]

OriginsSource ==
  IF IsSet("ALLOWED_ORIGINS") /\ ValueOf("ALLOWED_ORIGINS") # <<>>
  THEN ValueOf("ALLOWED_ORIGINS")
  ELSE DefaultString("ALLOWED_ORIGINS")

\* C6: the origins list is the resolved ALLOWED_ORIGINS string cut at its
\* commas, in order and untrimmed: the elements hold no comma and joined by
\* commas they give the string back.  "http://a.com,http://b.com" gives the
\* two origins, unset gives the default origin alone.
C6_OriginsSplit ==
  HarnessLoaded =>
    /\ Len(cfg.App.Origins) >= 1
    /\ \A i \in 1..Len(cfg.App.Origins) :
         \A j \in 1..Len(cfg.App.Origins[i]) : cfg.App.Origins[i][j] # ","
    /\ Join(cfg.App.Origins, ",") = OriginsSource
    /\ ValueOf("ALLOWED_ORIGINS") = <<"h","t","t","p",":","/","/","a",".","c","o","m",",","h","t","t","p",":","/","/","b",".","c","o","m">>
         => cfg.App.Origins = << <<"h","t","t","p",":","/","/","a",".","c","o","m">>,
                                 <<"h","t","t","p",":","/","/","b",".","c","o","m">> >>
    /\ ~IsSet("ALLOWED_ORIGINS")
         => cfg.App.Origins = << <<"h","t","t","p",":","/","/","l","o","c","a","l","h","o","s","t",":","3","0","0","0">> >>

\* C6's case: ALLOWED_ORIGINS="http://a.com,http://b.com" has been loaded.
C6_Witness ==
  /\ HarnessLoaded
  /\ ValueOf("ALLOWED_ORIGINS") = <<"h","t","t","p",":","/","/","a",".","c","o","m",",","h","t","t","p",":","/","/","b",".","c","o","m">>
  /\ Len(cfg.App.Origins) = 2

\* C7 as stated: ALLOWED_ORIGINS set to the empty string gives the list of
\* one empty string.
C7_Original ==
  (HarnessLoaded /\ IsSet("ALLOWED_ORIGINS") /\ ValueOf("ALLOWED_ORIGINS") = <<>>) =>
    cfg.App.Origins = << <<>> >>

\* C7 amended: ALLOWED_ORIGINS set to the empty string is resolved as if unset
\* and gives the default list; the list is in no case the list of one empty
\* string.
C7_EmptyOriginsGiveDefault ==
  HarnessLoaded =>
    /\ (IsSet("ALLOWED_ORIGINS") /\ ValueOf("ALLOWED_ORIGINS") = <<>>) =>
         cfg.App.Origins = << <<"h","t","t","p",":","/","/","l","o","c","a","l","h","o","s","t",":","3","0","0","0">> >>
    /\ cfg.App.Origins # << <<>> >>

\* C7's case: Load has returned with ALLOWED_ORIGINS set to the empty string.
C7_Witness ==
  /\ HarnessLoaded
  /\ IsSet("ALLOWED_ORIGINS")
  /\ ValueOf("ALLOWED_ORIGINS") = <<>>
  /\ Len(cfg.App.Origins) = 1

\* Two environments agree on the 29 variables.
AgreeOnVarNames(e1, e2) ==
  \A k \in VarNames : (k \in DOMAIN e1 <=> k \in DOMAIN e2) /\ Getenv(e1, k) = Getenv(e2, k)

\* C8: two Load calls whose environments agree on the 29 variables return
\* equal snapshots, whatever any other variable is set to.
C8_FunctionOfTheTable ==
  (pc = "harness" /\ loadCalls >= 2 /\ AgreeOnVarNames(loadedFrom, prev.env)) =>
    cfg = prev.cfg

\* C8's case: two calls, between which another variable was set or removed.
C8_Witness ==
  /\ pc = "harness"
  /\ loadCalls >= 2
  /\ AgreeOnVarNames(loadedFrom, prev.env)
  /\ loadedFrom # prev.env

\* main's positions before config.Load() has returned.
BeforeLoad == {"godotenv", "initLogger", "load"}

C10_SnapshotReadOnly ==
  [][ /\ cfg # Nil => cfg' = cfg
      /\ cfg' # cfg => loadCalls' = loadCalls + 1
      /\ loadCalls' # loadCalls =>
           UNCHANGED << env, gpc, logger, db, redisClient, ginMode, router,
                        server, notified, quit >> ]_vars

\* C10's case: main has run to its end with the snapshot in place.
C10_Witness ==
  /\ pc = "done"
  /\ gpc = "returned"
  /\ cfg # Nil

=============================================================================
